---- MODULE Spec2Model ----
(***************************************************************************)
(* Memento Mori year visualizer (src/script.js): the Settings store, the   *)
(* Renderer (grid construction and animation loop) and the App controller  *)
(* (day-of-year, midnight tick, UI bindings), as state machines.           *)
(*                                                                         *)
(* Timestamps are counted in deciseconds (100 ms), so that a whole year    *)
(* of elapsed time stays inside TLC's integers; every duration of the      *)
(* source is a multiple of 100 ms.                                         *)
(***************************************************************************)
EXTENDS Integers, Sequences, FiniteSets, TLC

VARIABLES
    \* Settings
    storage,      \* localStorage item 'memento_settings'
    defaults,     \* Settings.defaults
    state,        \* Settings.state
    spc,          \* where the Settings/App object is: "init", "ready", "threw", "theme2"
    dom,          \* what Settings.apply pushed onto the document
    controls,     \* the settings panel's inputs (checked / value)
    \* Renderer
    grid,         \* Renderer.grid
    canvas,       \* canvas size set by Renderer.resize
    dpr,          \* Renderer.dpr
    gridArgs,     \* the (year, currentDayOfYear) buildGrid is called with
    animFrame,    \* Renderer.animFrame
    pending,      \* frame requests the browser holds
    nextHandle,   \* next handle requestAnimationFrame returns
    startTime,    \* Renderer.startTime
    perfNow,      \* performance.now()
    loopOp,       \* last loop operation: "none", "start", "stop", "frame"
    \* App clock
    zone,         \* the device's daylight-saving rule
    now,          \* the instant, in deciseconds since local Dec 31 00:00 of last year
    bootAt,       \* the instant the App was constructed
    updatedAt     \* the instant of the last updateCalendar call

settingsVars == <<storage, defaults, state, spc, dom, controls>>
gridVars == <<grid, canvas, dpr, gridArgs>>
loopVars == <<animFrame, pending, nextHandle, startTime, perfNow, loopOp>>
clockVars == <<zone, now, bootAt, updatedAt>>
vars == <<storage, defaults, state, spc, dom, controls, grid, canvas, dpr, gridArgs,
          animFrame, pending, nextHandle, startTime, perfNow, loopOp,
          zone, now, bootAt, updatedAt>>

Null == "null"

(***************************************************************************)
(* Renderer.buildGrid                                                      *)
(***************************************************************************)
cols == 7
dotGapX == 28
dotGapY == 14

\* an empty (padding) slot of a row: the source pushes null
NullCell == [day |-> 0, status |-> Null]

isLeap(year) == (year % 4 = 0 /\ year % 100 # 0) \/ (year % 400 = 0)

totalDays(year) == IF isLeap(year) THEN 366 ELSE 365

\* The year the Date constructor takes `year` to be: 0..99 mean 1900..1999.
DateYear(year) == IF year >= 0 /\ year <= 99 THEN 1900 + year ELSE year

\* Days from Jan 1 of year 1 (a Monday) to Jan 1 of year y, proleptic Gregorian.
DaysBeforeYear(y) ==
    365 * (y - 1) + ((y - 1) \div 4) - ((y - 1) \div 100) + ((y - 1) \div 400)

\* new Date(year, 0, 1).getDay(): 0 = Sunday .. 6 = Saturday
startDay(year) == (1 + DaysBeforeYear(DateYear(year))) % 7

\* (mutant of offset: the Sunday-based weekday used unshifted)
offsetNoShift(year) == startDay(year)

offset(year) == (startDay(year) + 6) % 7

\* (mutant of rows: Math.floor in place of Math.ceil)
rowsFloor(totalCells) == totalCells \div cols

\* Math.ceil(totalCells / this.cols)
rows(totalCells) == (totalCells + cols - 1) \div cols

\* (mutant of status: <= in place of <, so that no day is 'today')
statusNoToday(dayCount, currentDayOfYear) ==
    IF dayCount <= currentDayOfYear THEN "past" ELSE "future"

status(dayCount, currentDayOfYear) ==
    IF dayCount < currentDayOfYear THEN "past"
    ELSE IF dayCount = currentDayOfYear THEN "today"
    ELSE "future"

\* The inner loop over c: acc carries rowData and dayCount.
RECURSIVE fillRow(_, _, _, _, _, _)
fillRow(r, c, off, total, currentDayOfYear, acc) ==
    IF c >= cols THEN acc
    ELSE LET idx == r * cols + c IN
         IF idx < off \/ acc.dayCount > total
         THEN fillRow(r, c + 1, off, total, currentDayOfYear,
                      [rowData |-> Append(acc.rowData, NullCell),
                       dayCount |-> acc.dayCount])
         ELSE fillRow(r, c + 1, off, total, currentDayOfYear,
                      [rowData |-> Append(acc.rowData,
                                          [day |-> acc.dayCount,
                                           status |-> status(acc.dayCount, currentDayOfYear)]),
                       dayCount |-> acc.dayCount + 1])

\* The outer loop over r: g is this.grid so far.
RECURSIVE fillRows(_, _, _, _, _, _, _)
fillRows(r, nrows, off, total, currentDayOfYear, dayCount, g) ==
    IF r >= nrows THEN g
    ELSE LET done == fillRow(r, 0, off, total, currentDayOfYear,
                             [rowData |-> <<>>, dayCount |-> dayCount])
         IN fillRows(r + 1, nrows, off, total, currentDayOfYear,
                     done.dayCount, Append(g, done.rowData))

buildGrid(year, currentDayOfYear) ==
    LET total == totalDays(year)
        off == offset(year)
        totalCells == off + total
    IN fillRows(0, rows(totalCells), off, total, currentDayOfYear, 1, <<>>)

\* Renderer.resize: the canvas size for grid g (unchanged while the grid is empty)
resize(g, cv, ratio) ==
    IF Len(g) = 0 THEN cv
    ELSE LET width == cols * dotGapX
             height == Len(g) * dotGapY
         IN [styleWidth |-> width, styleHeight |-> height,
             width |-> width * ratio, height |-> height * ratio]

(***************************************************************************)
(* JavaScript values and JSON text.  A value is <<typeof, String(value)>>;  *)
(* a JSON member is <<token kind, text>>.                                   *)
(***************************************************************************)
Str(s) == <<"string", s>>
Num(s) == <<"number", s>>
True == <<"boolean", "true">>
False == <<"boolean", "false">>
Bool(b) == IF b THEN True ELSE False
Undefined == <<"undefined", "undefined">>
NaN == <<"number", "NaN">>
JsNull == <<"object", "null">>

\* String(v), as setAttribute and el.value = v coerce
StringOf(v) == v[2]

\* the truthiness `if (v)` and el.checked = v test
Truthy(v) ==
    CASE v[1] = "string" -> v[2] # ""
      [] v[1] = "boolean" -> v[2] = "true"
      [] v[1] = "number" -> v[2] \notin {"0", "NaN"}
      [] OTHER -> FALSE

\* whether JSON.stringify writes the member at all
Serializable(v) == v[1] # "undefined"

\* JSON.stringify of one member value
stringifyValue(v) ==
    CASE v[1] = "string" -> <<"jstr", v[2]>>
      [] v[1] = "boolean" -> <<"jlit", v[2]>>
      [] v[1] = "number" ->
            IF v[2] \in {"NaN", "Infinity", "-Infinity"} THEN <<"jlit", "null">>
            ELSE <<"jnum", v[2]>>
      [] OTHER -> <<"jlit", "null">>

\* JSON.parse of one member
parseValue(t) ==
    CASE t[1] = "jstr" -> Str(t[2])
      [] t[1] = "jnum" -> Num(t[2])
      [] t[1] = "jlit" /\ t[2] \in {"true", "false"} -> <<"boolean", t[2]>>
      [] OTHER -> JsNull

\* The storage item: absent, the empty string, text that is no JSON, or the JSON
\* text of an object (its members).
Missing == [kind |-> "missing", members |-> <<>>]
EmptyText == [kind |-> "empty", members |-> <<>>]
Corrupt == [kind |-> "corrupt", members |-> <<>>]
ObjectText(m) == [kind |-> "text", members |-> m]

JSONstringify(obj) ==
    ObjectText([k \in {x \in DOMAIN obj : Serializable(obj[x])} |-> stringifyValue(obj[k])])

JSONparse(item) == [k \in DOMAIN item.members |-> parseValue(item.members[k])]

\* { ...a, ...b }
Spread(a, b) == [k \in (DOMAIN a) \cup (DOMAIN b) |-> IF k \in DOMAIN b THEN b[k] ELSE a[k]]

(***************************************************************************)
(* Settings                                                                *)
(***************************************************************************)
DefaultSettings ==
    [k \in {"theme", "accentColor", "dotSize", "glowEnabled", "showClock"} |->
        CASE k = "theme" -> Str("dark")
          [] k = "accentColor" -> Str("#f28c38")
          [] k = "dotSize" -> Num("3.5")
          [] k = "glowEnabled" -> True
          [] k = "showClock" -> True]

NoState == <<>>
NoDom == [theme |-> "", accent |-> "", clockHidden |-> FALSE]
NoControls == [theme |-> FALSE, accent |-> "", dotSize |-> "", glow |-> FALSE, clock |-> FALSE]

\* `saved ? ... : ...` on localStorage.getItem: null and '' are falsy
savedTruthy(item) == item.kind \notin {"missing", "empty"}

\* (mutant of loadThrows: the parse error swallowed)
loadCatches(item) == FALSE

\* JSON.parse(saved) throws a SyntaxError
loadThrows(item) == savedTruthy(item) /\ item.kind = "corrupt"

\* (mutant of load: the spread order swapped, defaults over the saved values)
loadDefaultsWin(item, defs) ==
    IF savedTruthy(item) THEN Spread(JSONparse(item), defs) ELSE defs

\* Settings.load
load(item, defs) ==
    IF savedTruthy(item) THEN Spread(defs, JSONparse(item)) ELSE defs

\* Settings.apply: data-theme, --accent-color, clock-container's hidden class
apply(st) ==
    [theme |-> StringOf(st["theme"]),
     accent |-> IF st["accentColor"] = JsNull THEN "" ELSE StringOf(st["accentColor"]),
     clockHidden |-> ~Truthy(st["showClock"])]

\* this.state[key] = value
assign(st, key, value) ==
    [k \in (DOMAIN st) \cup {key} |-> IF k = key THEN value ELSE st[k]]

\* (mutant of resetState: the defaults merged over the old state)
resetKeepsState(st, defs) == Spread(st, defs)

\* { ...this.defaults } in reset()
resetState(st, defs) == defs

\* App.initUI: the initial checked / value of each input (lines 328-329, 347)
initControls(st) ==
    [theme |-> st["theme"] = Str("light"),
     accent |-> StringOf(st["accentColor"]),
     dotSize |-> StringOf(st["dotSize"]),
     glow |-> Truthy(st["glowEnabled"]),
     clock |-> Truthy(st["showClock"])]

\* new Settings() and initUI() in the App constructor
Construct ==
    /\ spc = "init"
    /\ defaults' = DefaultSettings
    /\ IF loadThrows(storage)
       THEN /\ spc' = "threw"
            /\ UNCHANGED <<state, dom, controls>>
       ELSE /\ state' = load(storage, DefaultSettings)
            /\ dom' = apply(state')
            /\ controls' = initControls(state')
            /\ spc' = "ready"
    /\ UNCHANGED storage

\* update(key, value), save() and apply() on the state after them
Saved(st) ==
    /\ state' = st
    /\ storage' = JSONstringify(st)
    /\ dom' = apply(st)

\* Settings.update(key, value)
Update(key, value) ==
    /\ spc = "ready"
    /\ Saved(assign(state, key, value))
    /\ UNCHANGED <<defaults, spc, controls>>

\* Settings.reset()
Reset ==
    /\ spc = "ready"
    /\ Saved(resetState(state, defaults))
    /\ UNCHANGED <<defaults, spc, controls>>

\* The page is loaded again: the document and the objects are gone, the storage stays.
Reload ==
    /\ spc \in {"ready", "threw"}
    /\ spc' = "init"
    /\ state' = NoState
    /\ defaults' = NoState
    /\ dom' = NoDom
    /\ controls' = NoControls
    /\ UNCHANGED storage

(***************************************************************************)
(* The settings panel (App.initUI).  The theme toggle carries two change   *)
(* listeners, run in the order they were added: the one bind() installed   *)
(* and the manual one.                                                     *)
(***************************************************************************)
AccentChoices == {"#f28c38", "#00ff00", "#3366ff"}
DotSizeChoices == {"2", "3.5", "5"}

\* bind()'s listener: `el.type === 'checkbox' ? el.checked : transform(e.target.value)`;
\* the toggles are checkboxes (the source reads and writes their .checked)
bindValue(isCheckbox, checked, transformed) == IF isCheckbox THEN Bool(checked) ELSE transformed

\* the manual listener: `e.target.checked ? 'light' : 'dark'`
themeOf(checked) == IF checked THEN Str("light") ELSE Str("dark")

\* The user flips the theme checkbox; the listener bind() installed runs first.
ThemeChangeBind ==
    /\ spc = "ready"
    /\ controls' = [controls EXCEPT !.theme = ~controls.theme]
    /\ Saved(assign(state, "theme", bindValue(TRUE, controls'.theme, themeOf(TRUE))))
    /\ spc' = "theme2"
    /\ UNCHANGED defaults

\* ... and the manual listener second, in the same dispatch.
ThemeChangeManual ==
    /\ spc = "theme2"
    /\ Saved(assign(state, "theme", themeOf(controls.theme)))
    /\ spc' = "ready"
    /\ UNCHANGED <<defaults, controls>>

AccentInput(v) ==
    /\ spc = "ready"
    /\ controls' = [controls EXCEPT !.accent = v]
    /\ Saved(assign(state, "accentColor", bindValue(FALSE, FALSE, Str(v))))
    /\ UNCHANGED <<defaults, spc>>

DotSizeInput(v) ==
    /\ spc = "ready"
    /\ controls' = [controls EXCEPT !.dotSize = v]
    /\ Saved(assign(state, "dotSize", bindValue(FALSE, FALSE, Str(v))))
    /\ UNCHANGED <<defaults, spc>>

GlowChange ==
    /\ spc = "ready"
    /\ controls' = [controls EXCEPT !.glow = ~controls.glow]
    /\ Saved(assign(state, "glowEnabled", bindValue(TRUE, controls'.glow, Str("on"))))
    /\ UNCHANGED <<defaults, spc>>

ClockChange ==
    /\ spc = "ready"
    /\ controls' = [controls EXCEPT !.clock = ~controls.clock]
    /\ Saved(assign(state, "showClock", bindValue(TRUE, controls'.clock, Str("on"))))
    /\ UNCHANGED <<defaults, spc>>

\* the reset button: s.reset(), then the inputs are refreshed
ResetClick ==
    /\ spc = "ready"
    /\ Saved(resetState(state, defaults))
    /\ controls' = initControls(state')
    /\ UNCHANGED <<defaults, spc>>

(***************************************************************************)
(* Renderer: grid rebuild, resize, and the animation loop                  *)
(***************************************************************************)
NoCanvas == [styleWidth |-> 0, styleHeight |-> 0, width |-> 300, height |-> 150]
NoArgs == [year |-> 0, doy |-> 0]

\* renderer.buildGrid(year, currentDayOfYear), resize() included
Rebuilt(year, currentDayOfYear) ==
    /\ grid' = buildGrid(year, currentDayOfYear)
    /\ canvas' = resize(grid', canvas, dpr)
    /\ gridArgs' = [year |-> year, doy |-> currentDayOfYear]
    /\ UNCHANGED dpr

\* a call of buildGrid with the arguments the caller holds
BuildGrid == Rebuilt(gridArgs.year, gridArgs.doy)

\* the window's resize listener
WindowResize ==
    /\ canvas' = resize(grid, canvas, dpr)
    /\ UNCHANGED <<grid, dpr, gridArgs>>

MaxHandle == 6
MaxPerfNow == 5

\* (mutant of cancelIfSet: the pending request is not cancelled)
cancelNever(p, handle) == p

\* `if (this.animFrame) cancelAnimationFrame(this.animFrame)` in start() and stop()
cancelIfSet(p, handle) == IF handle # 0 THEN p \ {handle} ELSE p

\* the tail of draw(): this.animFrame = requestAnimationFrame(...), on the requests p
Drawn(p) ==
    /\ nextHandle <= MaxHandle
    /\ animFrame' = nextHandle
    /\ pending' = p \cup {nextHandle}
    /\ nextHandle' = nextHandle + 1

\* Renderer.start()
Start ==
    /\ startTime' = perfNow
    /\ Drawn(cancelIfSet(pending, animFrame))
    /\ loopOp' = "start"
    /\ UNCHANGED perfNow

\* Renderer.stop()
Stop ==
    /\ pending' = cancelIfSet(pending, animFrame)
    /\ loopOp' = "stop"
    /\ UNCHANGED <<animFrame, nextHandle, startTime, perfNow>>

\* The browser runs a pending frame request: draw(timestamp).
FrameFire ==
    \E h \in pending :
        /\ Drawn(pending \ {h})
        /\ loopOp' = "frame"
        /\ UNCHANGED <<startTime, perfNow>>

\* Time passes between callbacks.
Elapse ==
    /\ perfNow < MaxPerfNow
    /\ perfNow' = perfNow + 1
    /\ UNCHANGED <<animFrame, pending, nextHandle, startTime, loopOp>>

(***************************************************************************)
(* App: the device clock, dayOfYear, updateCalendar and the midnight tick. *)
(* An instant is the time elapsed since `new Date(year, 0, 0)`, local      *)
(* Dec 31 00:00 of the year before.  The wall clock runs ahead of or       *)
(* behind the elapsed time by the change of the UTC offset since then.     *)
(***************************************************************************)
oneSecond == 10
oneHour == 60 * 60 * oneSecond
\* `1000 * 60 * 60 * 24` ms
oneDay == 24 * oneHour

\* `new Date(date.getFullYear(), 0, 0)` is the origin of the instants
YearStart == 0

\* The UTC offset at instant t minus the offset at YearStart.
\*   "north":  summer time from Mar 30 02:00 to Oct 26 03:00 (Europe, 2025)
\*   "south":  summer time at New Year, standard time from Apr 6 to Oct 5 (Sydney, 2025)
dstShift(rule, t) ==
    CASE rule = "north" ->
            IF 89 * oneDay + 2 * oneHour <= t /\ t < 299 * oneDay + 2 * oneHour
            THEN oneHour ELSE 0
      [] rule = "south" ->
            IF 96 * oneDay + 3 * oneHour <= t /\ t < 278 * oneDay + 3 * oneHour
            THEN 0 - oneHour ELSE 0
      [] OTHER -> 0

\* the wall clock at instant t, as elapsed local time since Dec 31 00:00
wallClock(t) == t + dstShift(zone.rule, t)

\* getHours(), getMinutes(), getSeconds() of the Date at instant t
getHours(t) == (wallClock(t) % oneDay) \div oneHour
getMinutes(t) == ((wallClock(t) % oneDay) \div (60 * oneSecond)) % 60
getSeconds(t) == ((wallClock(t) % oneDay) \div oneSecond) % 60

\* App.dayOfYear: Math.floor((date - start) / oneDay)
dayOfYear(date) == (date - YearStart) \div oneDay

\* App.updateCalendar at instant t
UpdateCalendar(t) ==
    /\ Rebuilt(zone.year, dayOfYear(t))
    /\ updatedAt' = t

MaxJitter == 2
Window == 45

\* `n.getHours() === 0 && n.getMinutes() === 0 && n.getSeconds() === 0`
isMidnight(t) == getHours(t) = 0 /\ getMinutes(t) = 0 /\ getSeconds(t) = 0

\* The 1000 ms interval callback of startClock runs, `late` after it was due.
MidnightTick(late) ==
    /\ now + oneSecond + late <= bootAt + Window
    /\ now' = now + oneSecond + late
    /\ IF isMidnight(now')
       THEN UpdateCalendar(now')
       ELSE UNCHANGED <<grid, canvas, dpr, gridArgs, updatedAt>>
    /\ UNCHANGED <<zone, bootAt>>

(***************************************************************************)
(* Specifications.  Each one drives one part of the program and leaves the *)
(* other parts as they are before the App is constructed.                  *)
(***************************************************************************)
SettingsIdle ==
    /\ storage = Missing
    /\ defaults = NoState
    /\ state = NoState
    /\ spc = "off"
    /\ dom = NoDom
    /\ controls = NoControls

GridIdle == grid = <<>> /\ canvas = NoCanvas /\ dpr = 1 /\ gridArgs = NoArgs

\* the Renderer constructor: animFrame = null, startTime = performance.now()
LoopIdle ==
    /\ animFrame = 0
    /\ pending = {}
    /\ nextHandle = 1
    /\ startTime = 0
    /\ perfNow = 0
    /\ loopOp = "none"

ClockIdle ==
    /\ zone = [rule |-> "none", year |-> 2025]
    /\ now = 0
    /\ bootAt = 0
    /\ updatedAt = 0

\* ---- buildGrid on any year and day -------------------------------------
Years == {70, 1900, 2000, 2023, 2024, 2025, 2026, 2028, 2100}
MaxDay == 367

InitGrid ==
    /\ SettingsIdle /\ LoopIdle /\ ClockIdle
    /\ grid = <<>>
    /\ canvas = NoCanvas
    /\ dpr \in {1, 2}
    /\ gridArgs \in [year : Years, doy : 0..MaxDay]

NextGrid ==
    \/ BuildGrid /\ UNCHANGED <<settingsVars, loopVars, clockVars>>
    \/ WindowResize /\ UNCHANGED <<settingsVars, loopVars, clockVars>>

SpecGrid == InitGrid /\ [][NextGrid]_vars

\* ---- the animation loop ------------------------------------------------
InitLoop == SettingsIdle /\ GridIdle /\ ClockIdle /\ LoopIdle

NextLoop ==
    \/ Start /\ UNCHANGED <<settingsVars, gridVars, clockVars>>
    \/ Stop /\ UNCHANGED <<settingsVars, gridVars, clockVars>>
    \/ FrameFire /\ UNCHANGED <<settingsVars, gridVars, clockVars>>
    \/ Elapse /\ UNCHANGED <<settingsVars, gridVars, clockVars>>

SpecLoop == InitLoop /\ [][NextLoop]_vars

\* ---- the Settings store, called directly -------------------------------
Keys == {"theme", "showClock", "extra"}
Values == {Str("light"), False, Undefined, NaN}

InitialStorages ==
    {Missing, EmptyText, Corrupt,
     ObjectText([k \in {"theme"} |-> <<"jstr", "light">>]),
     ObjectText([k \in {"dotSize", "extra"} |->
                    IF k = "dotSize" THEN <<"jnum", "5">> ELSE <<"jlit", "null">>])}

InitSettings ==
    /\ GridIdle /\ LoopIdle /\ ClockIdle
    /\ storage \in InitialStorages
    /\ defaults = NoState
    /\ state = NoState
    /\ spc = "init"
    /\ dom = NoDom
    /\ controls = NoControls

NextSettings ==
    \/ Construct /\ UNCHANGED <<gridVars, loopVars, clockVars>>
    \/ \E key \in Keys, value \in Values :
          Update(key, value) /\ UNCHANGED <<gridVars, loopVars, clockVars>>
    \/ Reset /\ UNCHANGED <<gridVars, loopVars, clockVars>>
    \/ Reload /\ UNCHANGED <<gridVars, loopVars, clockVars>>

SpecSettings == InitSettings /\ [][NextSettings]_vars

\* ---- the settings panel ------------------------------------------------
PanelStorages ==
    {Missing,
     ObjectText([k \in {"theme"} |-> <<"jstr", "light">>]),
     ObjectText([k \in {"theme", "showClock"} |->
                    IF k = "theme" THEN <<"jstr", "dark">> ELSE <<"jlit", "false">>])}

InitPanel ==
    /\ GridIdle /\ LoopIdle /\ ClockIdle
    /\ storage \in PanelStorages
    /\ defaults = NoState
    /\ state = NoState
    /\ spc = "init"
    /\ dom = NoDom
    /\ controls = NoControls

NextPanel ==
    \/ Construct /\ UNCHANGED <<gridVars, loopVars, clockVars>>
    \/ ThemeChangeBind /\ UNCHANGED <<gridVars, loopVars, clockVars>>
    \/ ThemeChangeManual /\ UNCHANGED <<gridVars, loopVars, clockVars>>
    \/ \E v \in AccentChoices : AccentInput(v) /\ UNCHANGED <<gridVars, loopVars, clockVars>>
    \/ \E v \in DotSizeChoices : DotSizeInput(v) /\ UNCHANGED <<gridVars, loopVars, clockVars>>
    \/ GlowChange /\ UNCHANGED <<gridVars, loopVars, clockVars>>
    \/ ClockChange /\ UNCHANGED <<gridVars, loopVars, clockVars>>
    \/ ResetClick /\ UNCHANGED <<gridVars, loopVars, clockVars>>

SpecPanel == InitPanel /\ [][NextPanel]_vars

\* ---- the App's calendar over midnight ----------------------------------
Rules == {"none", "north", "south"}
BootDays == {1, 200, 330}
\* wall-clock times of day at which the App is constructed: each tenth of the
\* second 23:59:58, half past midnight, and noon
BootTimes ==
    {oneDay - 2 * oneSecond + phase : phase \in 0..9} \cup {oneHour \div 2, 12 * oneHour}

InitClock ==
    /\ SettingsIdle /\ LoopIdle
    /\ zone \in [rule : Rules, year : {2025}]
    /\ \E d \in BootDays, tod \in BootTimes, s \in {0 - oneHour, 0, oneHour} :
          /\ now = d * oneDay + tod - s
          /\ wallClock(now) = d * oneDay + tod
    /\ bootAt = now
    /\ updatedAt = now
    /\ dpr = 1
    /\ gridArgs = [year |-> zone.year, doy |-> dayOfYear(now)]
    /\ grid = buildGrid(zone.year, dayOfYear(now))
    /\ canvas = resize(grid, NoCanvas, dpr)

NextClock ==
    \E late \in 0..MaxJitter : MidnightTick(late) /\ UNCHANGED <<settingsVars, loopVars>>

SpecClock == InitClock /\ [][NextClock]_vars

(***************************************************************************)
(* Properties                                                              *)
(***************************************************************************)
\* the grid read row-major
Flat(g) == [i \in 1..(Len(g) * cols) |-> g[((i - 1) \div cols) + 1][((i - 1) % cols) + 1]]
IsDay(cell) == cell # NullCell
DaysOf(g) == LET f == SelectSeq(Flat(g), IsDay) IN [i \in 1..Len(f) |-> f[i].day]
Built == grid # <<>>

\* Weekday of Jan 1 of year y by Gauss's rule, Monday = 0 .. Sunday = 6
MondayIndex(y) ==
    ((1 + 5 * ((y - 1) % 4) + 4 * ((y - 1) % 100) + 6 * ((y - 1) % 400)) + 6) % 7

\* C1: the non-empty cells, read row-major, carry the days 1..366 in a leap year
\* and 1..365 otherwise, each once and in order, whatever currentDayOfYear is.
C1_EveryDayOnce ==
    Built =>
        LET Y == gridArgs.year
            n == IF (Y % 4 = 0 /\ Y % 100 # 0) \/ Y % 400 = 0 THEN 366 ELSE 365
        IN DaysOf(grid) = [i \in 1..n |-> i]

C1_Witness == Built /\ gridArgs.year = 2000 /\ gridArgs.doy = 0 /\ Len(DaysOf(grid)) = 366

\* C2 (as stated): empty cells appear only in the first row, and their number is
\* the Monday-indexed weekday of Jan 1 of the year.
C2_PaddingOnlyInFirstRow ==
    Built =>
        /\ \A r \in 1..Len(grid), c \in 1..cols : grid[r][c] = NullCell => r = 1
        /\ Cardinality({c \in 1..cols : grid[1][c] = NullCell}) = MondayIndex(gridArgs.year)

\* C2 (amended): every row has 7 cells; the empty cells are exactly the leading
\* ones, as many as the Monday-indexed weekday of Jan 1 of the year the Date
\* constructor takes the argument for (1900 + Y when 0 <= Y <= 99), all in the
\* first row, and the fewer than 7 cells after the last day, all in the last row.
C2_PaddingLeadsAndTrails ==
    Built =>
        LET Y == gridArgs.year
            lead == MondayIndex(IF Y >= 0 /\ Y <= 99 THEN 1900 + Y ELSE Y)
            n == IF (Y % 4 = 0 /\ Y % 100 # 0) \/ Y % 400 = 0 THEN 366 ELSE 365
            f == Flat(grid)
        IN /\ \A r \in 1..Len(grid) : Len(grid[r]) = cols
           /\ \A i \in 1..Len(f) : (f[i] = NullCell) <=> (i <= lead \/ i > lead + n)
           /\ lead < cols
           /\ Len(f) - (lead + n) < cols

C2_Witness ==
    /\ Built
    /\ gridArgs.year = 2025
    /\ grid[1][2] = NullCell
    /\ grid[1][3].day = 1
    /\ grid[Len(grid)][cols] = NullCell

\* C3: for currentDayOfYear d in 1..totalDays exactly one cell is 'today', the
\* one of day d; every earlier day is 'past' and every later day 'future'.
C3_OneTodayPastFuture ==
    LET Y == gridArgs.year
        d == gridArgs.doy
        n == IF (Y % 4 = 0 /\ Y % 100 # 0) \/ Y % 400 = 0 THEN 366 ELSE 365
        cells == SelectSeq(Flat(grid), IsDay)
    IN (Built /\ d >= 1 /\ d <= n) =>
        /\ Cardinality({i \in 1..Len(cells) : cells[i].status = "today"}) = 1
        /\ \A i \in 1..Len(cells) :
              /\ cells[i].day < d => cells[i].status = "past"
              /\ cells[i].day = d => cells[i].status = "today"
              /\ cells[i].day > d => cells[i].status = "future"

C3_Witness ==
    /\ Built
    /\ gridArgs = [year |-> 2024, doy |-> 366]
    /\ \E c \in 1..cols : grid[Len(grid)][c] = [day |-> 366, status |-> "today"]

\* the default settings object, as the claims spell it
DefaultsLiteral ==
    [theme |-> Str("dark"), accentColor |-> Str("#f28c38"), dotSize |-> Num("3.5"),
     glowEnabled |-> True, showClock |-> True]

DefaultsText ==
    ObjectText([theme |-> <<"jstr", "dark">>, accentColor |-> <<"jstr", "#f28c38">>,
                dotSize |-> <<"jnum", "3.5">>, glowEnabled |-> <<"jlit", "true">>,
                showClock |-> <<"jlit", "true">>])

\* a value JSON can carry: a string, a boolean, null or a finite number
JsonValue(v) ==
    \/ v[1] \in {"string", "boolean", "object"}
    \/ v[1] = "number" /\ v[2] \notin {"NaN", "Infinity", "-Infinity"}

\* C4 (as stated): after any update and reset calls, a fresh load() on the
\* storage returns the in-memory state, key by key and value by value.
C4_RoundTrip == spc = "ready" => load(storage, defaults) = state

\* C4 (amended): the same, provided every value of the state is one JSON can
\* carry (not undefined, NaN or an infinity).
C4_RoundTripOfJsonValues ==
    (spc = "ready" /\ \A k \in DOMAIN state : JsonValue(state[k])) =>
        load(storage, defaults) = state

C4_Witness ==
    /\ spc = "ready"
    /\ storage.kind = "text"
    /\ "extra" \in DOMAIN state
    /\ state["extra"] = Str("light")
    /\ state["theme"] = False
    /\ \A k \in DOMAIN state : JsonValue(state[k])

\* C5: whatever updates came before, reset() leaves the state equal to the default
\* settings object and persists that object, and no step changes the defaults.
C5_ResetRestoresDefaults ==
    /\ [][Reset => (state' = DefaultsLiteral /\ storage' = DefaultsText)]_vars
    /\ [](spc \in {"ready", "threw"} => defaults = DefaultsLiteral)

C5_Witness ==
    /\ spc = "ready"
    /\ state = DefaultsLiteral
    /\ storage = DefaultsText
    /\ defaults = DefaultsLiteral

C7_ThemeDarkOrLight ==
    spc \in {"ready", "theme2"} =>
        /\ state["theme"] \in {Str("dark"), Str("light")}
        /\ dom.theme \in {"dark", "light"}
        /\ storage.kind = "text" =>
              storage.members["theme"] \in {<<"jstr", "dark">>, <<"jstr", "light">>}

\* C8: at most one frame request is pending at any time, and once stop() has
\* returned, nothing draws until start() is called.
C8_OnePendingNoDrawAfterStop ==
    /\ [](Cardinality(pending) <= 1)
    /\ [](loopOp = "stop" => pending = {})
    /\ [][loopOp = "stop" => (nextHandle' = nextHandle \/ loopOp' = "start")]_vars

C8_Witness == loopOp = "stop" /\ animFrame # 0 /\ pending = {} /\ perfNow > startTime

\* the ordinal of the local calendar day at instant t
LocalDay(t) == wallClock(t) \div oneDay

\* C9: once a tick has run on a local day that began while the App runs,
\* updateCalendar has been called on that day (the first tick of a day is the only
\* one that can read 00:00:00).
C9_RolloverRebuilds ==
    LocalDay(now) > LocalDay(bootAt) => LocalDay(updatedAt) = LocalDay(now)

\* C10: dayOfYear of any instant is the ordinal of its local calendar day, and
\* updateCalendar passes buildGrid that ordinal, within 1..totalDays.
C10_DayOfYearIsLocalOrdinal ==
    /\ dayOfYear(now) = LocalDay(now)
    /\ gridArgs.doy = LocalDay(updatedAt)
    /\ gridArgs.doy >= 1 /\ gridArgs.doy <= totalDays(zone.year)

====
